---- MODULE Spec2Model ----
(***************************************************************************)
(* pytesmo validation framework: Validation.calc(job).                     *)
(*                                                                         *)
(* One run of calc is modelled as a state machine whose steps are the      *)
(* statements of the method: partitioning the job into points, retrieving  *)
(* the data of a point, the temporal matching loop, the resolution of a    *)
(* result name against the matched buckets, scaling, the metric            *)
(* calculator invocation and the final aggregation.  The configuration     *)
(* given to Validation.__init__ is chosen in Init.                          *)
(***************************************************************************)
EXTENDS Integers, Sequences, FiniteSets, TLC

VARIABLES
    ds_dict,            \* data_manager.ds_dict: dataset name -> columns
    metrics_c,          \* self.metrics_c: the (n, k) keys in iteration order
    scaling,            \* self.scaling: "None" or a method name
    scaling_ref,        \* self.scaling_ref
    temporal_ref,       \* self.temporal_ref
    cell_based_jobs,    \* self.cell_based_jobs
    job,                \* the argument of calc
    pc,                 \* position in calc
    err,                \* the exception calc propagated, if any
    points,             \* zip(process_gpis, process_lons, process_lats)
    pi,                 \* index of the current gpi_info in points
    gpi_meta,           \* gpi_meta
    df_dict,            \* df_dict of the current point
    matched_n,          \* matched_n, aligned with metrics_c
    ki,                 \* index of the current (n, k) in metrics_c
    ri,                 \* index of the current result name
    rename_dict,        \* rename_dict of the current result name
    data,               \* data of the current result name
    results,            \* results
    compact_results,    \* compact_results
    emptyLog,           \* points skipped at "len(df_dict) == 0"
    matcherLog,         \* the calls of self.temp_matching
    scaleLog,           \* the calls of scaling.scale
    calcLog             \* the calls of the metrics calculators

vars == <<ds_dict, metrics_c, scaling, scaling_ref, temporal_ref,
          cell_based_jobs, job, pc, err, points, pi, gpi_meta, df_dict,
          matched_n, ki, ri, rename_dict, data, results, compact_results,
          emptyLog, matcherLog, scaleLog, calcLog>>

config == <<ds_dict, metrics_c, scaling, scaling_ref, temporal_ref,
            cell_based_jobs, job>>

logs == <<emptyLog, matcherLog, scaleLog, calcLog>>

(***************************************************************************)
(* Bounds and the configurations explored.                                 *)
(***************************************************************************)
MaxPoints == 2

reference_name == "A"

\* dataset names in sorted order
DsOrder == <<"A", "B", "C", "D">>

DsDict3 == [d \in {"A", "B", "C"} |-> <<"x">>]

DsDict4 == [d \in {"A", "B", "C", "D"} |->
               IF d = "B" THEN <<"x", "y">> ELSE <<"x">>]

DsDicts == {DsDict3, DsDict4}

\* metrics_calculators registries: sequences of (n, k) keys
Registries == { << <<2, 2>> >>,
                << <<3, 2>> >>,
                << <<3, 2>>, <<3, 3>> >>,
                << <<4, 3>> >>,
                << <<2, 2>>, <<3, 2>> >> }

ScalingMethods == {"None", "lin_cdf_match"}

\* a time series of one dataset at one point
EmptySeries == <<>>
FlatSeries == <<1, 1>>
GoodSeries == <<1, 2>>

SeriesOf(d) == IF d = "B" THEN {EmptySeries, FlatSeries, GoodSeries}
               ELSE {GoodSeries}

\* the mappings the retriever can return for one point
DfDicts(dsd) ==
    UNION { [S -> {EmptySeries, FlatSeries, GoodSeries}] : S \in SUBSET DOMAIN dsd }

DfChoices(dsd) == { df \in DfDicts(dsd) : \A d \in DOMAIN df : df[d] \in SeriesOf(d) }

Cells == {1}

PointJobs == { <<1, 11, 21>>, <<1, 11, 21, 99>> }

(***************************************************************************)
(* Helpers on sequences.                                                   *)
(***************************************************************************)
Range(s) == { s[i] : i \in DOMAIN s }

Min(S) == CHOOSE x \in S : \A y \in S : x <= y

Max(S) == CHOOSE x \in S : \A y \in S : x >= y

\* concatenation of a sequence of sequences
RECURSIVE Flatten(_)
Flatten(ss) == IF ss = <<>> THEN <<>> ELSE Head(ss) \o Flatten(Tail(ss))

\* itertools.combinations(s, r), in its order
RECURSIVE Combinations(_, _)
Combinations(s, r) ==
    IF r = 0 THEN << <<>> >>
    ELSE IF Len(s) < r THEN <<>>
    ELSE LET withHead == Combinations(Tail(s), r - 1)
         IN  [i \in DOMAIN withHead |-> <<Head(s)>> \o withHead[i]]
             \o Combinations(Tail(s), r)

(***************************************************************************)
(* The collaborators of calc, at their interface.                          *)
(***************************************************************************)

\* reference_grid.grid_points_for_cell(cell): (gpis, lons, lats)
grid_points_for_cell(cell) ==
    << [g \in 1..MaxPoints |-> cell * 10 + g],
       [g \in 1..MaxPoints |-> 10 + g],
       [g \in 1..MaxPoints |-> 20 + g] >>

\* zip(a, b, c)
Zip3(a, b, c) ==
    [i \in 1..Min({Len(a), Len(b), Len(c)}) |-> <<a[i], b[i], c[i]>>]

\* the (dataset, column) pairs of the datasets in names, in order
ColumnsOf(dsd, names) ==
    Flatten([i \in DOMAIN names |->
                [j \in DOMAIN dsd[names[i]] |-> <<names[i], dsd[names[i]][j]>>]])

\* get_result_names(ds_dict, refkey, n): every reference column followed by
\* every combination of n - 1 columns of the other datasets
get_result_names(dsd, refkey, n) ==
    LET ref_columns == ColumnsOf(dsd, <<refkey>>)
        others == SelectSeq(DsOrder, LAMBDA d : d \in DOMAIN dsd /\ d # refkey)
        other_columns == ColumnsOf(dsd, others)
        combs == Combinations(other_columns, n - 1)
    IN  Flatten([i \in DOMAIN ref_columns |->
                    [j \in DOMAIN combs |-> <<ref_columns[i]>> \o combs[j]]])

\* the table of the datasets of key matched to the first of them: every
\* column cut to the rows all datasets share
MatchedTable(dsd, df, key) ==
    LET rows == Min({Len(df[key[i]]) : i \in DOMAIN key})
        cols == Range(ColumnsOf(dsd, key))
    IN  [c \in cols |-> SubSeq(df[c[1]], 1, rows)]

\* temporal_matchers.BasicTemporalMatching.combinatory_matcher(df_dict,
\* refkey, n): one bucket per combination of n datasets with data that starts
\* with refkey, in iteration order
combinatory_matcher(dsd, df, refkey, n) ==
    IF refkey \notin DOMAIN df THEN <<>>
    ELSE LET others == SelectSeq(DsOrder, LAMBDA d : d \in DOMAIN df /\ d # refkey)
             combs == Combinations(others, n - 1)
         IN  [i \in DOMAIN combs |->
                 [key |-> <<refkey>> \o combs[i],
                  table |-> MatchedTable(dsd, df, <<refkey>> \o combs[i])]]

\* scaling.scale raises ValueError on a column with a single distinct value
ScaleInfeasible(d) ==
    \E i \in DOMAIN d.values : Cardinality(Range(d.values[i])) < 2

\* scaling.scale(data, method, reference_index)
scale(d, method, reference_index) ==
    [d EXCEPT !.scaled = <<method, reference_index>>]

\* a metrics calculator: one single-element array per field
metrics_calculator(nk, d, meta) ==
    [gpi |-> <<meta[1]>>, n_obs |-> <<Len(d.values[1])>>]

(***************************************************************************)
(* The pure parts of calc.                                                 *)
(***************************************************************************)
None == <<>>

NoData == [columns |-> <<>>, source |-> <<>>, values |-> <<>>, scaled |-> None]

NoError == [type |-> "none", line |-> 0]

\* f = lambda x: "k{}".format(x) if x > 0 else 'ref'
f(x) == IF x > 0 THEN "k" \o ToString(x) ELSE "ref"

\* dskey: the dataset part of every element of result
DsKey(result) == [i \in DOMAIN result |-> result[i][1]]

\* rename_dict[r[0]] = f(i) for i, r in enumerate(result): a later position
\* of the same dataset overwrites an earlier one
RenameDict(result) ==
    LET dskey == DsKey(result)
    IN  [d \in Range(dskey) |-> f(Max({i \in DOMAIN dskey : dskey[i] = d}) - 1)]

\* key in n_matched_data
HasKey(matched, key) == \E i \in DOMAIN matched : matched[i].key = key

\* n_matched_data[key]
TableOf(matched, key) ==
    matched[CHOOSE i \in DOMAIN matched : matched[i].key = key].table

\* first_match = [key for key in n_matched_data if dskey[0] == key[0]]
FirstMatch(matched, dskey) ==
    LET keys == [i \in DOMAIN matched |-> matched[i].key]
    IN  SelectSeq(keys, LAMBDA key : dskey[1] = key[1])

\* the loop over first_match: the "continue" leaves only the inner loop, so
\* every key of first_match is assigned and the last one stays
FoundKey(first_match, dskey) ==
    IF first_match = <<>> THEN None ELSE first_match[Len(first_match)]

\* the key looked up in n_matched_data for result under the calculator (n, k)
LookupKey(matched, n, k, dskey) ==
    IF n = k THEN dskey ELSE FoundKey(FirstMatch(matched, dskey), dskey)

\* data[[x for x in result]] finds every column
CanProject(table, result) == \A i \in DOMAIN result : result[i] \in DOMAIN table

\* data[[x for x in result]]; columns.droplevel(level=1)
Project(table, result) ==
    [columns |-> DsKey(result),
     source  |-> result,
     values  |-> [i \in DOMAIN result |-> table[result[i]]],
     scaled  |-> None]

\* data.rename(columns=rename_dict, inplace=True)
Rename(d, rd) ==
    [d EXCEPT !.columns = [i \in DOMAIN d.columns |->
                              IF d.columns[i] \in DOMAIN rd THEN rd[d.columns[i]]
                              ELSE d.columns[i]]]

\* len(data)
LenData(d) == Len(d.values[1])

\* data.columns.tolist().index(label)
IndexOf(columns, label) == Min({i \in DOMAIN columns : columns[i] = label}) - 1

\* results[result].append(value), creating the list first if needed
AppendResult(res, result, value) ==
    IF result \in DOMAIN res
    THEN [res EXCEPT ![result] = Append(@, value)]
    ELSE [r \in DOMAIN res \cup {result} |->
             IF r = result THEN <<value>> ELSE res[r]]

\* the aggregation of results into compact_results
Compact(res) ==
    [key \in DOMAIN res |->
        [field_name \in DOMAIN res[key][1] |->
            [i \in DOMAIN res[key] |-> res[key][i][field_name][1]]]]

(***************************************************************************)
(* The state machine of calc.                                              *)
(***************************************************************************)

\* Validation.__init__ and the entry of calc
Init ==
    /\ ds_dict \in DsDicts
    /\ metrics_c \in Registries
    /\ scaling \in ScalingMethods
    /\ scaling_ref \in IF scaling = "None" THEN {reference_name}
                       ELSE {reference_name, "B"}
    /\ temporal_ref = reference_name
    /\ cell_based_jobs \in BOOLEAN
    /\ job \in IF cell_based_jobs THEN Cells ELSE PointJobs
    /\ pc = "start"
    /\ err = NoError
    /\ points = <<>>
    /\ pi = 0
    /\ gpi_meta = None
    /\ df_dict = <<>>
    /\ matched_n = <<>>
    /\ ki = 0
    /\ ri = 0
    /\ rename_dict = <<>>
    /\ data = NoData
    /\ results = <<>>
    /\ compact_results = <<>>
    /\ emptyLog = {}
    /\ matcherLog = <<>>
    /\ scaleLog = <<>>
    /\ calcLog = <<>>

\* the (n, k) of the current iteration and its result names
CurN == metrics_c[ki][1]

CurK == metrics_c[ki][2]

ResultNames(j) == get_result_names(ds_dict, temporal_ref, metrics_c[j][2])

CurResult == ResultNames(ki)[ri]

\* the calculators from index j on that have a result name to iterate over
UnitsFrom(j) == {i \in j..Len(metrics_c) : ResultNames(i) # <<>>}

\* "for gpi_info in zip(...)": the next point, or the end of the loop
GotoPoint(p, pts) ==
    /\ pi' = p
    /\ pc' = IF p <= Len(pts) THEN "get_data" ELSE "aggregate"
    /\ ki' = 0
    /\ ri' = 0

\* the second "for n, k in self.metrics_c" and its inner loop over the result
\* names, entered at the calculator j
GotoUnit(j) ==
    IF UnitsFrom(j) # {}
    THEN /\ ki' = Min(UnitsFrom(j))
         /\ ri' = 1
         /\ pc' = "resolve"
         /\ pi' = pi
    ELSE GotoPoint(pi + 1, points)

\* "continue", or the end of the body of the loop over the result names
NextResult ==
    IF ri < Len(ResultNames(ki))
    THEN /\ ri' = ri + 1
         /\ ki' = ki
         /\ pc' = "resolve"
         /\ pi' = pi
    ELSE GotoUnit(ki + 1)

\* an exception leaves calc
Raise(type, line) ==
    /\ pc' = "raised"
    /\ err' = [type |-> type, line |-> line]
    /\ UNCHANGED <<pi, ki, ri>>

\* lines 149-157: results = {} and the points of the job
Partition ==
    /\ pc = "start"
    /\ points' = IF cell_based_jobs
                 THEN LET g == grid_points_for_cell(job)
                      IN  Zip3(g[1], g[2], g[3])
                 ELSE Zip3(<<job[1]>>, <<job[2]>>, <<job[3]>>)
    /\ results' = <<>>
    /\ GotoPoint(1, points')
    /\ UNCHANGED <<config, err, gpi_meta, df_dict, matched_n, rename_dict,
                   data, compact_results, logs>>

\* gpi_meta taken from the point whatever the kind of job
GpiMeta_Point(gpi_info) == gpi_info

\* lines 161-164
GpiMeta(gpi_info) == IF cell_based_jobs THEN gpi_info ELSE job

\* the test of line 171 left out: no point is skipped for lack of data
IsEmpty_Never(df) == FALSE

\* line 171: len(df_dict) == 0
IsEmpty(df) == Cardinality(DOMAIN df) = 0

\* lines 158-176: gpi_meta, get_data and the test for no data; emptyLog
\* records the points for which the retriever returned an empty mapping
GetData ==
    /\ pc = "get_data"
    /\ gpi_meta' = GpiMeta(points[pi])
    /\ \E df \in DfChoices(ds_dict) :
          /\ df_dict' = df
          /\ emptyLog' = IF DOMAIN df = {} THEN emptyLog \cup {pi} ELSE emptyLog
          /\ IF IsEmpty(df)
             THEN GotoPoint(pi + 1, points)
             ELSE /\ pc' = "match"
                  /\ ki' = 1
                  /\ UNCHANGED <<pi, ri>>
    /\ matched_n' = <<>>
    /\ UNCHANGED <<config, err, points, rename_dict, data, results,
                   compact_results, matcherLog, scaleLog, calcLog>>

\* the matcher called once per distinct n: a later calculator with the same n
\* reuses the buckets of the earlier one
Match_Shared ==
    /\ pc = "match"
    /\ LET earlier == {j \in 1..(ki - 1) : metrics_c[j][1] = CurN}
       IN  IF earlier = {}
           THEN /\ matched_n' = Append(matched_n,
                       combinatory_matcher(ds_dict, df_dict, temporal_ref, CurN))
                /\ matcherLog' = Append(matcherLog, [point |-> pi, n |-> CurN])
           ELSE /\ matched_n' = Append(matched_n, matched_n[Min(earlier)])
                /\ matcherLog' = matcherLog
    /\ IF ki < Len(metrics_c)
       THEN /\ ki' = ki + 1
            /\ UNCHANGED <<pc, pi, ri>>
       ELSE GotoUnit(1)
    /\ UNCHANGED <<config, err, points, gpi_meta, df_dict, rename_dict, data,
                   results, compact_results, emptyLog, scaleLog, calcLog>>

\* lines 177-182: one iteration of the first "for n, k in self.metrics_c"
Match ==
    /\ pc = "match"
    /\ matched_n' = Append(matched_n,
                           combinatory_matcher(ds_dict, df_dict, temporal_ref, CurN))
    /\ matcherLog' = Append(matcherLog, [point |-> pi, n |-> CurN])
    /\ IF ki < Len(metrics_c)
       THEN /\ ki' = ki + 1
            /\ UNCHANGED <<pc, pi, ri>>
       ELSE GotoUnit(1)
    /\ UNCHANGED <<config, err, points, gpi_meta, df_dict, rename_dict, data,
                   results, compact_results, emptyLog, scaleLog, calcLog>>

\* lines 191-230: the bucket of the current result name, its projection and
\* relabeling, and the test for no rows
Resolve ==
    /\ pc = "resolve"
    /\ LET result == CurResult
           dskey == DsKey(result)
           n_matched_data == matched_n[ki]
           key == LookupKey(n_matched_data, CurN, CurK, dskey)
       IN  /\ rename_dict' = RenameDict(result)
           /\ IF ~HasKey(n_matched_data, key)
              THEN /\ Raise("KeyError", IF CurN = CurK THEN 202 ELSE 218)
                   /\ data' = data
              ELSE IF ~CanProject(TableOf(n_matched_data, key), result)
              THEN /\ Raise("KeyError", 221)
                   /\ data' = data
              ELSE /\ data' = Rename(Project(TableOf(n_matched_data, key), result),
                                     RenameDict(result))
                   /\ err' = err
                   /\ IF LenData(data') = 0
                      THEN NextResult
                      ELSE /\ pc' = IF scaling # "None" THEN "scale" ELSE "invoke"
                           /\ UNCHANGED <<pi, ki, ri>>
    /\ UNCHANGED <<config, points, gpi_meta, df_dict, matched_n, results,
                   compact_results, logs>>

\* the ValueError of scaling.scale not caught
Scale_Propagates ==
    /\ pc = "scale"
    /\ IF scaling_ref \notin DOMAIN rename_dict
       THEN /\ Raise("KeyError", 236)
            /\ UNCHANGED <<data, scaleLog>>
       ELSE LET scaling_index == IndexOf(data.columns, rename_dict[scaling_ref])
                infeasible == ScaleInfeasible(data)
            IN  /\ scaleLog' = Append(scaleLog,
                                      [point |-> pi, nk |-> metrics_c[ki],
                                       result |-> CurResult, data |-> data,
                                       reference_index |-> scaling_index,
                                       raised |-> infeasible])
                /\ IF infeasible
                   THEN /\ data' = data
                        /\ Raise("ValueError", 238)
                   ELSE /\ data' = scale(data, scaling, scaling_index)
                        /\ err' = err
                        /\ pc' = "invoke"
                        /\ UNCHANGED <<pi, ki, ri>>
    /\ UNCHANGED <<config, points, gpi_meta, df_dict, matched_n, rename_dict,
                   results, compact_results, emptyLog, matcherLog, calcLog>>

\* a result name without the scaling reference scaled to its first column
Scale_FallsBack ==
    /\ pc = "scale"
    /\ LET scaling_index == IF scaling_ref \in DOMAIN rename_dict
                            THEN IndexOf(data.columns, rename_dict[scaling_ref])
                            ELSE 0
           infeasible == ScaleInfeasible(data)
       IN  /\ scaleLog' = Append(scaleLog,
                                 [point |-> pi, nk |-> metrics_c[ki],
                                  result |-> CurResult, data |-> data,
                                  reference_index |-> scaling_index,
                                  raised |-> infeasible])
           /\ err' = err
           /\ IF infeasible
              THEN /\ data' = data
                   /\ NextResult
              ELSE /\ data' = scale(data, scaling, scaling_index)
                   /\ pc' = "invoke"
                   /\ UNCHANGED <<pi, ki, ri>>
    /\ UNCHANGED <<config, points, gpi_meta, df_dict, matched_n, rename_dict,
                   results, compact_results, emptyLog, matcherLog, calcLog>>

\* the list of the result name created before scaling instead of after it
Scale_KeyFirst ==
    /\ pc = "scale"
    /\ IF scaling_ref \notin DOMAIN rename_dict
       THEN /\ Raise("KeyError", 236)
            /\ UNCHANGED <<data, scaleLog, results>>
       ELSE LET scaling_index == IndexOf(data.columns, rename_dict[scaling_ref])
                infeasible == ScaleInfeasible(data)
            IN  /\ scaleLog' = Append(scaleLog,
                                      [point |-> pi, nk |-> metrics_c[ki],
                                       result |-> CurResult, data |-> data,
                                       reference_index |-> scaling_index,
                                       raised |-> infeasible])
                /\ err' = err
                /\ results' = IF CurResult \in DOMAIN results THEN results
                               ELSE [r \in DOMAIN results \cup {CurResult} |->
                                        IF r = CurResult THEN <<>> ELSE results[r]]
                /\ IF infeasible
                   THEN /\ data' = data
                        /\ NextResult
                   ELSE /\ data' = scale(data, scaling, scaling_index)
                        /\ pc' = "invoke"
                        /\ UNCHANGED <<pi, ki, ri>>
    /\ UNCHANGED <<config, points, gpi_meta, df_dict, matched_n, rename_dict,
                   compact_results, emptyLog, matcherLog, calcLog>>

\* lines 232-242: scaling of the current table
Scale ==
    /\ pc = "scale"
    /\ IF scaling_ref \notin DOMAIN rename_dict
       THEN /\ Raise("KeyError", 236)
            /\ UNCHANGED <<data, scaleLog>>
       ELSE LET scaling_index == IndexOf(data.columns, rename_dict[scaling_ref])
                infeasible == ScaleInfeasible(data)
            IN  /\ scaleLog' = Append(scaleLog,
                                      [point |-> pi, nk |-> metrics_c[ki],
                                       result |-> CurResult, data |-> data,
                                       reference_index |-> scaling_index,
                                       raised |-> infeasible])
                /\ err' = err
                /\ IF infeasible
                   THEN /\ data' = data
                        /\ NextResult
                   ELSE /\ data' = scale(data, scaling, scaling_index)
                        /\ pc' = "invoke"
                        /\ UNCHANGED <<pi, ki, ri>>
    /\ UNCHANGED <<config, points, gpi_meta, df_dict, matched_n, rename_dict,
                   results, compact_results, emptyLog, matcherLog, calcLog>>

\* lines 244-248: the metrics calculator and the accumulation of its result
Invoke ==
    /\ pc = "invoke"
    /\ results' = AppendResult(results, CurResult,
                               metrics_calculator(metrics_c[ki], data, gpi_meta))
    /\ calcLog' = Append(calcLog, [point |-> pi, nk |-> metrics_c[ki],
                                   result |-> CurResult, data |-> data,
                                   point_meta |-> gpi_meta])
    /\ NextResult
    /\ UNCHANGED <<config, err, points, gpi_meta, df_dict, matched_n,
                   rename_dict, data, compact_results, emptyLog, matcherLog,
                   scaleLog>>

\* lines 250-260: compact_results and the return
Aggregate ==
    /\ pc = "aggregate"
    /\ compact_results' = Compact(results)
    /\ pc' = "done"
    /\ UNCHANGED <<config, err, points, pi, gpi_meta, df_dict, matched_n, ki,
                   ri, rename_dict, data, results, logs>>

Next ==
    \/ Partition
    \/ GetData
    \/ Match
    \/ Resolve
    \/ Scale
    \/ Invoke
    \/ Aggregate

Spec == Init /\ [][Next]_vars

(***************************************************************************)
(* Properties.                                                             *)
(***************************************************************************)

\* what the logs say about a point
MatcherCalls(p) == SelectSeq(matcherLog, LAMBDA e : e.point = p)

CalcCalls(p, result) ==
    {i \in DOMAIN calcLog : calcLog[i].point = p /\ calcLog[i].result = result}

\* the points with data whose temporal matching is complete
MatchedPoints ==
    {p \in DOMAIN points :
        /\ p \notin emptyLog
        /\ \/ p < pi
           \/ p = pi /\ pc \in {"resolve", "scale", "invoke", "raised"}}

\* the resolution of the current result name has looked up a bucket
Resolved == pc \in {"scale", "invoke"} \/ (pc = "raised" /\ err.line = 221)

\* the key calc looks up for the current result name
UsedKey == LookupKey(matched_n[ki], CurN, CurK, DsKey(CurResult))

\* the keys of the buckets that start with dskey[0] and contain every dataset
\* of dskey[1:], in iteration order
Candidates(matched, dskey) ==
    SelectSeq([i \in DOMAIN matched |-> matched[i].key],
              LAMBDA key : /\ key[1] = dskey[1]
                           /\ \A i \in 2..Len(dskey) : dskey[i] \in Range(key))

\* C1: under a calculator (n, k) with n > k the bucket used for a result name
\* starts with dskey[0] and contains every dataset of dskey[1:], and it is the
\* last such bucket in iteration order; a bucket that lacks a requested
\* dataset is never used.
C1_BucketContainsRequested ==
    (Resolved /\ CurN > CurK) =>
        LET dskey == DsKey(CurResult)
            candidates == Candidates(matched_n[ki], dskey)
        IN  /\ UsedKey[1] = dskey[1]
            /\ \A i \in 2..Len(dskey) : dskey[i] \in Range(UsedKey)
            /\ candidates # <<>> /\ UsedKey = candidates[Len(candidates)]

\* the combination requested by the current result name is absent from the
\* matched buckets
AbsentCombination ==
    LET dskey == DsKey(CurResult)
    IN  \/ CurN = CurK /\ ~HasKey(matched_n[ki], dskey)
        \/ CurN > CurK /\ FirstMatch(matched_n[ki], dskey) = <<>>

\* C2: a result name whose dataset-key combination is absent from the matched
\* buckets of a point is skipped and calc does not raise.
C2_AbsentIsSkipped ==
    (pc \in {"resolve", "raised"} /\ AbsentCombination) => pc # "raised"

\* the distinct n of the registry
DistinctN == {metrics_c[j][1] : j \in DOMAIN metrics_c}

C4_RelabelingBijective ==
    pc \in {"scale", "invoke"} =>
        /\ data.source = CurResult
        /\ data.columns = [i \in DOMAIN CurResult |-> f(i - 1)]
        /\ \A i, j \in DOMAIN data.columns :
              data.columns[i] = data.columns[j] => i = j

\* the points that produced a result for a result name
ProducingPoints(result) == {p \in DOMAIN points : CalcCalls(p, result) # {}}

\* C5: every array of the returned CompactResult holds exactly one entry per
\* point that produced a result for its result name, so it is never longer
\* than the number of points of the job.
C5_OneEntryPerPoint ==
    pc = "done" =>
        \A key \in DOMAIN compact_results :
            \A field_name \in DOMAIN compact_results[key] :
                /\ Len(compact_results[key][field_name])
                      = Cardinality(ProducingPoints(key))
                /\ Len(compact_results[key][field_name]) <= Len(points)

\* scaling.scale is about to raise its ValueError
ScaleRaises ==
    /\ pc = "scale"
    /\ scaling_ref \in DOMAIN rename_dict
    /\ ScaleInfeasible(data)

\* C6: when the scaling transform raises its ValueError for a (point, result
\* name), calc does not abort, goes on with what follows that combination,
\* leaves the accumulated results as they were and never invokes the
\* calculator for that combination.
C6_InfeasibleScalingSkips ==
    /\ [][ScaleRaises =>
            /\ pc' \in {"resolve", "get_data", "aggregate"}
            /\ err' = NoError
            /\ results' = results
            /\ calcLog' = calcLog
            /\ <<pi', ki', ri'>> # <<pi, ki, ri>>]_vars
    /\ [](\A i \in DOMAIN scaleLog : scaleLog[i].raised =>
            ~\E j \in DOMAIN calcLog :
                /\ calcLog[j].point = scaleLog[i].point
                /\ calcLog[j].nk = scaleLog[i].nk
                /\ calcLog[j].result = scaleLog[i].result)

C6_Witness ==
    /\ pc = "done"
    /\ \E i \in DOMAIN scaleLog :
          /\ scaleLog[i].raised
          /\ \E j \in DOMAIN calcLog : calcLog[j].point = scaleLog[i].point

\* C7: a point for which the retriever returns an empty mapping causes no
\* matcher call, no calculator call and no error, and a job whose points all
\* have empty data returns an empty mapping.
C7_EmptyPointSkipped ==
    /\ \A p \in emptyLog :
          /\ MatcherCalls(p) = <<>>
          /\ \A i \in DOMAIN calcLog : calcLog[i].point # p
          /\ \A i \in DOMAIN scaleLog : scaleLog[i].point # p
          /\ pc = "raised" => pi # p
    /\ (pc \in {"aggregate", "done", "raised"} /\ emptyLog = DOMAIN points) =>
          /\ pc # "raised"
          /\ results = <<>>
          /\ pc = "done" => compact_results = <<>>

C7_Witness ==
    /\ pc = "done"
    /\ Len(points) > 1
    /\ emptyLog = DOMAIN points

\* C8: every calculator invocation receives as point_meta the (gpi, lon, lat)
\* of the point being processed when jobs are cell based, and the job itself
\* when jobs are point based.
C8_PointMeta ==
    \A i \in DOMAIN calcLog :
        calcLog[i].point_meta = IF cell_based_jobs THEN points[calcLog[i].point]
                                ELSE job

C8_Witness ==
    /\ ~cell_based_jobs
    /\ Len(job) > 3
    /\ calcLog # <<>>

\* C9: with scaling configured a calculator is invoked only for result names
\* that name the scaling reference dataset; for any other result name a
\* non-empty projected table makes calc fail with a lookup error.
C9_ScalingRefRequired ==
    /\ [](scaling # "None" =>
            /\ \A i \in DOMAIN calcLog :
                  scaling_ref \in Range(DsKey(calcLog[i].result))
            /\ pc = "invoke" => scaling_ref \in Range(DsKey(CurResult)))
    /\ [][(pc = "resolve" /\ scaling # "None" /\ pc' \notin {"resolve", "raised"}
             /\ <<pi', ki', ri'>> = <<pi, ki, ri>>) => pc' = "scale"]_vars
    /\ [][(pc = "scale" /\ scaling_ref \notin Range(DsKey(CurResult))) =>
             /\ pc' = "raised"
             /\ err' = [type |-> "KeyError", line |-> 236]
             /\ calcLog' = calcLog]_vars

C9_Witness ==
    /\ pc = "raised"
    /\ err.line = 236
    /\ scaling_ref # temporal_ref

====
